---- MODULE Spec2Model ----
(***************************************************************************)
(* The training loop of train.py (YOLOv7 on MindSpore): per-worker loop    *)
(* state, the StaticCell / StaticShape step functions, loss scaling,       *)
(* gradient accumulation, EMA updates and the distributed gradient         *)
(* reduction.  A gradient (the tuple of tensors) is one exact rational or  *)
(* the non-finite value.                                                   *)
(***************************************************************************)
EXTENDS Integers, Sequences, FiniteSets, TLC

\* ---------------------------------------------------------------- bounds
MaxPerEpoch == 4
MaxWarmup == 2
MaxDistSteps == 2
MaxScaleExp == 14

\* ------------------------------------------------------ program constants
nbs == 64
rank_size_default == 8
init_scale_value == 4096
scale_factor == 2
scale_window == 1000
scale_floor == 1

\* float32 scale values the long runs stay below
RECURSIVE Pow2(_)
Pow2(e) == IF e = 0 THEN 1 ELSE 2 * Pow2(e - 1)

ScaleCap == Pow2(MaxScaleExp)

\* ------------------------------------------------------ gradient values
Abs(x) == IF x < 0 THEN -x ELSE x

RECURSIVE GCD(_, _)
GCD(a, b) == IF b = 0 THEN a ELSE GCD(b, a % b)

\* the finite tensor value n/d, in lowest terms (d > 0)
Rat(n, d) == LET g == GCD(Abs(n), d) IN [fin |-> TRUE, n |-> n \div g, d |-> d \div g]

\* a tensor holding inf or nan
NonFinite == [fin |-> FALSE, n |-> 0, d |-> 1]

\* a += b on tensors: inf/nan absorbs
RAdd(a, b) == IF a.fin /\ b.fin THEN Rat(a.n * b.d + b.n * a.d, a.d * b.d) ELSE NonFinite

RMulInt(a, k) == IF a.fin THEN Rat(a.n * k, a.d) ELSE NonFinite

RDivInt(a, k) == IF a.fin THEN Rat(a.n, a.d * k) ELSE NonFinite

\* ------------------------------------------------------------ configuration
\* the parsed options a run is started with (opt), as they reach train()
BaseOpt ==
    [optimizer |-> "sgd", ms_strategy |-> "StaticShape", ms_loss_scaler |-> "dynamic",
     ms_loss_scaler_value |-> 1024, ms_grad_sens |-> 1024,
     overflow_still_update |-> FALSE, ema |-> TRUE,
     is_distributed |-> FALSE, rank_size |-> 1,
     total_batch_size |-> 64, epochs |-> 1, per_epoch_size |-> MaxPerEpoch,
     warmup_steps |-> 0]

TotalBatchSizes == {16, 64}

Epochs == {1, 2}

\* single device, step function built by create_train_static_shape_fn_gradoperation:
\* runs of one epoch with every option, and runs of several epochs without warmup
ShapeConfigs ==
    { [BaseOpt EXCEPT !.total_batch_size = b, !.warmup_steps = ws,
                      !.overflow_still_update = su, !.ema = em, !.ms_loss_scaler = ls] :
        b \in TotalBatchSizes, ws \in 0..MaxWarmup,
        su \in BOOLEAN, em \in BOOLEAN, ls \in {"dynamic", "none"} }
    \cup { [BaseOpt EXCEPT !.total_batch_size = b, !.epochs = e, !.ema = em] :
              b \in TotalBatchSizes, e \in Epochs, em \in BOOLEAN }
    \cup { [BaseOpt EXCEPT !.total_batch_size = b, !.ms_grad_sens = init_scale_value] :
              b \in TotalBatchSizes }

\* single device, StaticLossScaler(opt.ms_loss_scaler_value)
StaticScalerConfigs ==
    { [BaseOpt EXCEPT !.ms_loss_scaler = "static", !.ms_loss_scaler_value = v,
                      !.total_batch_size = b] :
        v \in {1024, 2048}, b \in TotalBatchSizes }

\* single device, TrainOneStepWithLossScaleCell
CellConfigs ==
    { [BaseOpt EXCEPT !.ms_strategy = "StaticCell", !.total_batch_size = b,
                      !.warmup_steps = ws, !.ema = em] :
        b \in TotalBatchSizes, ws \in 0..MaxWarmup, em \in BOOLEAN }
    \cup { [BaseOpt EXCEPT !.ms_strategy = "StaticCell", !.epochs = e] : e \in Epochs }

\* data-parallel runs: rank_size workers, one process each
DistConfigs ==
    { [BaseOpt EXCEPT !.is_distributed = TRUE, !.rank_size = 2, !.per_epoch_size = 1,
                      !.epochs = e, !.total_batch_size = b] :
        e \in 1..MaxDistSteps, b \in {32, 64} }
    \cup { [BaseOpt EXCEPT !.is_distributed = TRUE, !.rank_size = 4,
                           !.per_epoch_size = 1, !.epochs = 1] }

\* option combinations train() and __main__ refuse
RejectedConfigs ==
    { [BaseOpt EXCEPT !.optimizer = "thor"],
      [BaseOpt EXCEPT !.ms_strategy = "DynamicShape"],
      [BaseOpt EXCEPT !.ms_loss_scaler = "auto"],
      [BaseOpt EXCEPT !.ms_strategy = "StaticCell", !.ms_grad_sens = 512],
      [BaseOpt EXCEPT !.is_distributed = TRUE, !.rank_size = 3] }

ConfigSet ==
    ShapeConfigs \cup StaticScalerConfigs \cup CellConfigs \cup DistConfigs \cup RejectedConfigs

\* every rank a run may have, plus one
AllWorkers == 1..4

\* the true gradients of one micro-batch on one worker; NonFinite is an
\* fp16 overflow in the backward pass
GradInputs == {Rat(1, 1), Rat(3, 1), NonFinite}

VARIABLES
    opt,                  \* the options of the run
    pc,                   \* per worker: "setup", "loop", "reduce", "done", "aborted"
    i,                    \* per worker: the loop index of the next iteration
    accumulate,           \* per worker: the accumulation target
    accumulate_grads,     \* per worker: <<>> for None, <<sum>> otherwise
    accumulate_cur_step,  \* per worker: finite micro-batches in the buffer
    params,               \* per worker: the sum of the gradients applied by the optimizer
    opt_steps,            \* per worker: number of optimizer(grads) calls
    ema_updates,          \* per worker: number of ema.update() calls
    scale_value,          \* per worker: loss_scaler.scale_value
    counter,              \* per worker: loss_scaler.counter
    reduce_calls,         \* per worker: number of grad_reducer(grads) calls
    allreduce,            \* per worker: the gradients it has handed to the collective
    n_finite,             \* per worker: micro-batches so far with grads_finite
    acc_seen,             \* per worker: the accumulation targets its iterations ran with
    streak,               \* per worker: finite micro-batches in a row since the scale last
                          \* changed (kept by ScaleStep only)
    checkpoints,          \* per worker: the checkpoints it has written, oldest first
    window,               \* per worker: the gradients of the finite micro-batches since
                          \* its latest optimizer update
    last                  \* per worker: what the latest iteration did

vars == <<opt, pc, i, accumulate, accumulate_grads, accumulate_cur_step, params, opt_steps,
          ema_updates, scale_value, counter, reduce_calls, allreduce, n_finite, acc_seen, streak,
          checkpoints, window, last>>

Workers == 1..opt.rank_size

NoStep ==
    [fin |-> TRUE, acc |-> 0, opt |-> FALSE, ema |-> FALSE, adj |-> FALSE,
     local |-> Rat(0, 1), red |-> Rat(0, 1), grads |-> Rat(0, 1), handed |-> <<>>,
     scale |-> 0, sens |-> 0, rank_size |-> 0, printed |-> {}]

\* ------------------------------------------------------------------ setup
Max(a, b) == IF a >= b THEN a ELSE b

\* Python round() / numpy .round() of n/d (n >= 0, d > 0): half to even
RoundHalfEven(n, d) ==
    LET q == n \div d
        r == n % d
    IN  IF 2 * r < d THEN q
        ELSE IF 2 * r > d THEN q + 1
        ELSE IF q % 2 = 0 THEN q ELSE q + 1

\* accumulate = max(round(nbs / total_batch_size), 1)
NominalAccumulate(o) == Max(RoundHalfEven(nbs, o.total_batch_size), 1)

\* accumulate = max(1, np.interp(i, [0, warmup_steps], [1, nbs / total_batch_size]).round())
\* 1 + (nbs/tbs - 1) * k / ws  =  (tbs*ws + (nbs - tbs)*k) / (tbs*ws)
WarmupAccumulate(o, k) ==
    Max(1, RoundHalfEven(o.total_batch_size * o.warmup_steps + (nbs - o.total_batch_size) * k,
                         o.total_batch_size * o.warmup_steps))

\* the accumulation target iteration k runs with, given the one before it
LoopAccumulate(o, k, acc) == IF k < o.warmup_steps THEN WarmupAccumulate(o, k) ELSE acc

\* the asserts and NotImplementedErrors raised before the loop
SetupRejects(o) ==
    \/ o.rank_size > 1 /\ o.total_batch_size % o.rank_size # 0
    \/ o.optimizer \notin {"sgd", "momentum", "adam"}
    \/ o.ms_strategy = "StaticCell" /\ o.ms_grad_sens # o.ms_loss_scaler_value
    \/ o.ms_strategy # "StaticCell" /\ o.ms_loss_scaler \notin {"dynamic", "static", "none"}
    \/ o.ms_strategy \notin {"StaticCell", "StaticShape"}

\* scale_value of the scaler the step function unscales with
InitialScale(o) ==
    IF o.ms_strategy = "StaticCell" THEN o.ms_grad_sens
    ELSE IF o.ms_loss_scaler = "dynamic" THEN init_scale_value
    ELSE IF o.ms_loss_scaler = "static" THEN o.ms_loss_scaler_value
    ELSE o.ms_grad_sens

\* number of batches the data_loader yields
data_loader_len(o) == o.epochs * o.per_epoch_size

\* "for i, data in enumerate(data_loader)": after k iterations of len batches
NextPc(k, len) == IF k >= len THEN "done" ELSE "loop"

Init ==
    /\ opt \in ConfigSet
    /\ pc = [w \in Workers |-> "setup"]
    /\ i = [w \in Workers |-> 0]
    /\ accumulate = [w \in Workers |-> 0]
    /\ accumulate_grads = [w \in Workers |-> <<>>]
    /\ accumulate_cur_step = [w \in Workers |-> 0]
    /\ params = [w \in Workers |-> Rat(0, 1)]
    /\ opt_steps = [w \in Workers |-> 0]
    /\ ema_updates = [w \in Workers |-> 0]
    /\ scale_value = [w \in Workers |-> 0]
    /\ counter = [w \in Workers |-> 0]
    /\ reduce_calls = [w \in Workers |-> 0]
    /\ allreduce = [w \in Workers |-> <<>>]
    /\ n_finite = [w \in Workers |-> 0]
    /\ acc_seen = [w \in Workers |-> {}]
    /\ streak = [w \in Workers |-> 0]
    /\ checkpoints = [w \in Workers |-> <<>>]
    /\ window = [w \in Workers |-> <<>>]
    /\ last = [w \in Workers |-> NoStep]

\* train() up to the loop: reject, or build optimizer, scaler and step function
Setup(w) ==
    /\ pc[w] = "setup"
    /\ IF SetupRejects(opt)
       THEN /\ pc' = [pc EXCEPT ![w] = "aborted"]
            /\ UNCHANGED <<accumulate, scale_value>>
       ELSE /\ pc' = [pc EXCEPT ![w] = NextPc(0, data_loader_len(opt))]
            /\ accumulate' = [accumulate EXCEPT ![w] = NominalAccumulate(opt)]
            /\ scale_value' = [scale_value EXCEPT ![w] = InitialScale(opt)]
    /\ UNCHANGED <<opt, i, accumulate_grads, accumulate_cur_step, params, opt_steps,
                   ema_updates, counter, reduce_calls, allreduce, n_finite, acc_seen, streak,
                   checkpoints, window, last>>

\* ------------------------------------------------------------ loss scaler
\* DynamicLossScaler.adjust: grow after scale_window finite calls in a row,
\* shrink (not below scale_floor) on a non-finite one
adjust(sv, ctr, grads_finite) ==
    [scale_value |-> IF grads_finite
                     THEN (IF ctr = scale_window - 1 THEN sv * scale_factor ELSE sv)
                     ELSE Max(scale_floor, sv \div scale_factor),
     counter |-> IF grads_finite THEN (ctr + 1) % scale_window ELSE 0]

\* variant: the loop adjusts the scaler on finite micro-batches only
LoopAdjustFiniteOnly(o, sv, ctr, grads_finite) ==
    IF o.ms_loss_scaler = "dynamic" /\ grads_finite THEN adjust(sv, ctr, grads_finite)
    ELSE [scale_value |-> sv, counter |-> ctr]

\* variant: every scaler object the loop holds adapts
LoopAdjustAnyScaler(o, sv, ctr, grads_finite) ==
    IF o.ms_loss_scaler \in {"dynamic", "static"} THEN adjust(sv, ctr, grads_finite)
    ELSE [scale_value |-> sv, counter |-> ctr]

\* "if loss_scaler: loss_scaler.adjust(grads_finite)" of the loop: the static
\* scaler's adjust changes nothing, and with "none" the loop holds no scaler
LoopAdjust(o, sv, ctr, grads_finite) ==
    IF o.ms_loss_scaler = "dynamic" THEN adjust(sv, ctr, grads_finite)
    ELSE [scale_value |-> sv, counter |-> ctr]

\* the loop calls adjust on a real scaler object
LoopAdjustCalled(o) == o.ms_loss_scaler \in {"dynamic", "static"}

\* loss_scaler.unscale(grads): divide by the scaler's scale_value
unscale(grads, sv) == RDivInt(grads, sv)

all_finite(grads) == grads.fin

\* -------------------------------------------------------- step function
\* "loss *= rank_size": rank_size is the factory's parameter, which train()
\* never passes, so it holds the default
loss_rank_size(o) == rank_size_default

\* "sens_value = sens", with sens = opt.ms_grad_sens: what backpropagation is seeded with
sens_value(o) == o.ms_grad_sens

\* forward_func and grad_fn on one worker: the loss is multiplied by rank_size
\* and backpropagation is seeded with sens_value
backward(o, g) == RMulInt(g, loss_rank_size(o) * sens_value(o))

\* the all-reduce sum of the gradients f[1..n]: over the common denominator,
\* non-finite as soon as one of them is
RECURSIVE DenOver(_, _)
DenOver(f, n) == IF n = 0 THEN 1 ELSE DenOver(f, n - 1) * f[n].d

RECURSIVE NumOver(_, _, _)
NumOver(f, n, den) == IF n = 0 THEN 0 ELSE NumOver(f, n - 1, den) + f[n].n * (den \div f[n].d)

SumOver(f, n) ==
    IF \A k \in 1..n : f[k].fin THEN Rat(NumOver(f, n, DenOver(f, n)), DenOver(f, n))
    ELSE NonFinite

\* variant: the reducer sums and does not divide by the device count
grad_reducer_sum(o, contrib, w) ==
    IF o.is_distributed THEN SumOver(contrib, o.rank_size) ELSE contrib[w]

\* variant: no collective, every worker keeps its own gradients
grad_reducer_local(o, contrib, w) == contrib[w]

\* grad_reducer: DistributedGradReducer(parameters, mean = gradients_mean = True,
\* degree = device_num) over the workers' gradients, or the identity
grad_reducer(o, contrib, w) ==
    IF o.is_distributed THEN RDivInt(SumOver(contrib, o.rank_size), o.rank_size)
    ELSE contrib[w]

\* variant: the finite branch of train_step forgets the optimizer
StepAppliesOverflowOnly(o, optimizer_update, grads_finite) ==
    optimizer_update /\ ~grads_finite /\ o.overflow_still_update

\* train_step applies the optimizer itself
StepApplies(o, optimizer_update, grads_finite) ==
    optimizer_update /\ (grads_finite \/ o.overflow_still_update)

\* what train_step prints
StepPrints(o, optimizer_update, grads_finite) ==
    IF optimizer_update /\ ~grads_finite
    THEN (IF o.overflow_still_update THEN {"overflow, still update."}
          ELSE {"overflow, drop the step."})
    ELSE {}

\* train_step after the reducer: unscale, finiteness, optional optimizer(grads)
train_step(o, s, red, optimizer_update) ==
    LET grads == unscale(red, s.scale_value)
        grads_finite == all_finite(grads)
        update == StepApplies(o, optimizer_update, grads_finite)
    IN  [grads |-> grads, grads_finite |-> grads_finite, update |-> update,
         params |-> IF update THEN RAdd(s.params, grads) ELSE s.params,
         opt_steps |-> IF update THEN s.opt_steps + 1 ELSE s.opt_steps,
         printed |-> StepPrints(o, optimizer_update, grads_finite)]

\* ------------------------------------------------------------ loop body
\* the fields of worker w the loop body reads and writes
WorkerState(w) ==
    [accumulate_grads |-> accumulate_grads[w], accumulate_cur_step |-> accumulate_cur_step[w],
     params |-> params[w], opt_steps |-> opt_steps[w], ema_updates |-> ema_updates[w],
     scale_value |-> scale_value[w], counter |-> counter[w]]

\* "if ema: ema.update()" in the accumulate == 1 branch
EmaAfterStep(o, grads_finite) == o.ema

\* accumulate == 1: train_step(imgs, labels, ns, True), ema.update(), adjust
ShapeNoAccum(o, s, acc, local, red) ==
    LET t == train_step(o, s, red, TRUE)
        e == EmaAfterStep(o, t.grads_finite)
        a == LoopAdjust(o, s.scale_value, s.counter, t.grads_finite)
    IN  [accumulate_grads |-> s.accumulate_grads,
         accumulate_cur_step |-> s.accumulate_cur_step,
         params |-> t.params, opt_steps |-> t.opt_steps,
         ema_updates |-> IF e THEN s.ema_updates + 1 ELSE s.ema_updates,
         scale_value |-> a.scale_value, counter |-> a.counter,
         last |-> [fin |-> t.grads_finite, acc |-> acc, opt |-> t.update, ema |-> e,
                   adj |-> LoopAdjustCalled(o), local |-> local, red |-> red,
                   grads |-> t.grads,
                   handed |-> IF t.update THEN <<t.grads>> ELSE <<>>,
                   scale |-> s.scale_value,
                   sens |-> sens_value(o), rank_size |-> loss_rank_size(o),
                   printed |-> t.printed \cup
                       (IF LoopAdjustCalled(o) /\ ~t.grads_finite
                        THEN {"overflow, loss scale adjust to"} ELSE {})]]

\* variant: the accumulation branch takes every micro-batch
AccumulateTakesAll(grads_finite) == TRUE

\* "if grads_finite:" of the accumulation branch
AccumulateTakes(grads_finite) == grads_finite

\* variant: a micro-batch replaces the buffer
AccumulateOverwrites(buf, grads) == <<grads>>

\* "accumulate_grads[gi] += grads[gi]", or "accumulate_grads = list(grads)" on None
AccumulateInto(buf, grads) == IF buf # <<>> THEN <<RAdd(buf[1], grads)>> ELSE <<grads>>

\* variant: the window closes one micro-batch late
AccumulateFiresLate(cur, acc) == cur % (acc + 1) = 0

\* variant: the window closes one micro-batch early
AccumulateFiresEarly(cur, acc) == (cur + 1) % acc = 0

\* "if accumulate_cur_step % accumulate == 0:"
AccumulateFires(cur, acc) == cur % acc = 0

\* accumulate > 1: train_step(imgs, labels, ns, False), adjust, accumulate, fire
ShapeAccum(o, s, acc, local, red) ==
    LET t == train_step(o, s, red, FALSE)
        a == LoopAdjust(o, s.scale_value, s.counter, t.grads_finite)
        take == AccumulateTakes(t.grads_finite)
        cur == IF take THEN s.accumulate_cur_step + 1 ELSE s.accumulate_cur_step
        buf == IF ~take THEN s.accumulate_grads ELSE AccumulateInto(s.accumulate_grads, t.grads)
        fire == take /\ AccumulateFires(cur, acc)
    IN  [accumulate_grads |-> IF fire THEN <<>> ELSE buf,
         accumulate_cur_step |-> IF fire THEN 0 ELSE cur,
         params |-> IF fire THEN RAdd(t.params, buf[1]) ELSE t.params,
         opt_steps |-> IF fire THEN t.opt_steps + 1 ELSE t.opt_steps,
         ema_updates |-> IF fire /\ o.ema THEN s.ema_updates + 1 ELSE s.ema_updates,
         scale_value |-> a.scale_value, counter |-> a.counter,
         last |-> [fin |-> t.grads_finite, acc |-> acc, opt |-> fire \/ t.update,
                   ema |-> fire /\ o.ema,
                   adj |-> LoopAdjustCalled(o), local |-> local, red |-> red,
                   grads |-> t.grads,
                   handed |-> IF fire THEN buf ELSE <<>>,
                   scale |-> s.scale_value,
                   sens |-> sens_value(o), rank_size |-> loss_rank_size(o),
                   printed |-> t.printed \cup
                       (IF fire THEN {"optimizer an accumulate step success."} ELSE {}) \cup
                       (IF ~take THEN {"this step grad overflow, drop."} ELSE {})]]

\* StaticCell: TrainOneStepWithLossScaleCell with FixedLossScaleUpdateCell(ms_grad_sens)
\* applies the optimizer unless the gradients overflow; the loop then updates the EMA
CellStep(o, s, acc, local, red) ==
    LET grads == unscale(red, s.scale_value)
        overflow == ~all_finite(grads)
    IN  [accumulate_grads |-> s.accumulate_grads,
         accumulate_cur_step |-> s.accumulate_cur_step,
         params |-> IF overflow THEN s.params ELSE RAdd(s.params, grads),
         opt_steps |-> IF overflow THEN s.opt_steps ELSE s.opt_steps + 1,
         ema_updates |-> IF ~overflow /\ o.ema THEN s.ema_updates + 1 ELSE s.ema_updates,
         scale_value |-> s.scale_value, counter |-> s.counter,
         last |-> [fin |-> ~overflow, acc |-> acc, opt |-> ~overflow,
                   ema |-> ~overflow /\ o.ema,
                   adj |-> FALSE, local |-> local, red |-> red, grads |-> grads,
                   handed |-> IF overflow THEN <<>> ELSE <<grads>>,
                   scale |-> s.scale_value,
                   sens |-> sens_value(o), rank_size |-> loss_rank_size(o),
                   printed |-> IF overflow THEN {"this step grad overflow, drop."} ELSE {}]]

\* one iteration of the loop after the gradients are reduced
LoopBody(o, s, acc, local, red) ==
    IF o.ms_strategy = "StaticCell" THEN CellStep(o, s, acc, local, red)
    ELSE IF acc = 1 THEN ShapeNoAccum(o, s, acc, local, red)
    ELSE ShapeAccum(o, s, acc, local, red)

\* "assert accumulate == 1" of the StaticCell branch fails
AssertFails(o, acc) == o.ms_strategy = "StaticCell" /\ acc # 1

\* opt.rank of the process: get_rank(), or 0 on a single device
rank(w) == w - 1

\* cur_epoch = (i // per_epoch_size) + 1
cur_epoch(o, k) == (k \div o.per_epoch_size) + 1

\* variant: the checkpoint is written at the first step of an epoch
SavesCheckpointAtEpochStart(o, w, k) == (rank(w) % 8 = 0) /\ (k % o.per_epoch_size = 0)

\* "if (rank % 8 == 0) and ((i + 1) % per_epoch_size == 0):"
SavesCheckpoint(o, w, k) == (rank(w) % 8 = 0) /\ ((k + 1) % o.per_epoch_size = 0)

\* ms.save_checkpoint(model, ..._{cur_epoch}.ckpt) and, with the EMA on, the EMA
\* weights with append_dict = {"updates": ema.updates}
Checkpoint(o, k, r) ==
    [epoch |-> cur_epoch(o, k), weights |-> r.params, ema |-> o.ema,
     updates |-> IF o.ema THEN r.ema_updates ELSE 0]

\* the finite gradients since the latest optimizer(grads) call, after an iteration
WindowAfter(win, r) ==
    IF r.last.opt THEN <<>> ELSE IF r.last.fin THEN Append(win, r.last.grads) ELSE win

\* the loop body's writes, and the for loop's advance
Commit(w, r) ==
    /\ accumulate_grads' = [accumulate_grads EXCEPT ![w] = r.accumulate_grads]
    /\ accumulate_cur_step' = [accumulate_cur_step EXCEPT ![w] = r.accumulate_cur_step]
    /\ params' = [params EXCEPT ![w] = r.params]
    /\ opt_steps' = [opt_steps EXCEPT ![w] = r.opt_steps]
    /\ ema_updates' = [ema_updates EXCEPT ![w] = r.ema_updates]
    /\ scale_value' = [scale_value EXCEPT ![w] = r.scale_value]
    /\ counter' = [counter EXCEPT ![w] = r.counter]
    /\ last' = [last EXCEPT ![w] = r.last]
    /\ n_finite' = [n_finite EXCEPT ![w] = IF r.last.fin THEN @ + 1 ELSE @]
    /\ acc_seen' = [acc_seen EXCEPT ![w] = @ \cup {r.last.acc}]
    /\ window' = [window EXCEPT ![w] = WindowAfter(@, r)]
    /\ checkpoints' = [checkpoints EXCEPT ![w] =
           IF SavesCheckpoint(opt, w, i[w]) THEN Append(@, Checkpoint(opt, i[w], r)) ELSE @]
    /\ i' = [i EXCEPT ![w] = @ + 1]
    /\ pc' = [pc EXCEPT ![w] = NextPc(i[w] + 1, data_loader_len(opt))]

\* one whole iteration on a single device (grad_reducer is the identity)
Step(w) ==
    /\ pc[w] = "loop"
    /\ ~opt.is_distributed
    /\ LET acc == LoopAccumulate(opt, i[w], accumulate[w])
       IN  /\ accumulate' = [accumulate EXCEPT ![w] = acc]
           /\ IF AssertFails(opt, acc)
              THEN /\ pc' = [pc EXCEPT ![w] = "aborted"]
                   /\ UNCHANGED <<i, accumulate_grads, accumulate_cur_step, params,
                                  opt_steps, ema_updates, scale_value, counter,
                                  reduce_calls, n_finite, acc_seen, checkpoints, window,
                                  last>>
              ELSE \E g \in GradInputs :
                     \E local \in {backward(opt, g)} :
                     \E red \in {grad_reducer(opt, [v \in Workers |-> local], w)} :
                     \E r \in {LoopBody(opt, WorkerState(w), acc, local, red)} :
                         /\ Commit(w, r)
                         /\ reduce_calls' = [reduce_calls EXCEPT
                                ![w] = IF opt.ms_strategy = "StaticShape" THEN @ + 1 ELSE @]
    /\ UNCHANGED <<opt, allreduce, streak>>

\* variant: a worker whose own gradients overflowed skips the collective
HandInFinite(given, local) == IF local.fin THEN Append(given, local) ELSE given

\* "grads = grad_reducer(grads)": the worker's gradients enter the collective,
\* whatever they hold
HandIn(given, local) == Append(given, local)

\* data-parallel: the iteration up to the collective; the worker hands its
\* gradients to the all-reduce and waits for the others
BeginStep(w) ==
    /\ pc[w] = "loop"
    /\ opt.is_distributed
    /\ LET acc == LoopAccumulate(opt, i[w], accumulate[w])
       IN  /\ accumulate' = [accumulate EXCEPT ![w] = acc]
           /\ IF AssertFails(opt, acc)
              THEN /\ pc' = [pc EXCEPT ![w] = "aborted"]
                   /\ UNCHANGED <<allreduce, reduce_calls>>
              ELSE /\ \E g \in GradInputs :
                        allreduce' = [allreduce EXCEPT ![w] = HandIn(@, backward(opt, g))]
                   /\ pc' = [pc EXCEPT ![w] = "reduce"]
                   /\ reduce_calls' = [reduce_calls EXCEPT ![w] = @ + 1]
    /\ UNCHANGED <<opt, i, accumulate_grads, accumulate_cur_step, params, opt_steps,
                   ema_updates, scale_value, counter, n_finite, acc_seen, streak,
                   checkpoints, window, last>>

\* every worker has handed in its gradients of round r
RoundComplete(r) == \A v \in Workers : Len(allreduce[v]) >= r

\* data-parallel: the collective returns, the rest of the iteration runs
EndStep(w) ==
    /\ pc[w] = "reduce"
    /\ RoundComplete(i[w] + 1)
    /\ \E local \in {allreduce[w][i[w] + 1]} :
       \E red \in {grad_reducer(opt, [v \in Workers |-> allreduce[v][i[w] + 1]], w)} :
       \E r \in {LoopBody(opt, WorkerState(w), accumulate[w], local, red)} :
           Commit(w, r)
    /\ UNCHANGED <<opt, accumulate, reduce_calls, allreduce, streak>>

\* ---------------------------------- the loss scaler over long runs
\* The loop's calls of loss_scaler.adjust, one per micro-batch, in either
\* branch of "if accumulate == 1", with the rest of the loop state left out:
\* runs long enough for the scaler's window need thousands of iterations.
ScaleStep(w) ==
    /\ pc[w] = "loop"
    /\ opt.ms_strategy = "StaticShape"
    /\ \E grads_finite \in BOOLEAN :
        LET a == LoopAdjust(opt, scale_value[w], counter[w], grads_finite)
        IN  /\ a.scale_value <= ScaleCap
            /\ scale_value' = [scale_value EXCEPT ![w] = a.scale_value]
            /\ counter' = [counter EXCEPT ![w] = a.counter]
            /\ streak' = [streak EXCEPT ![w] =
                   IF grads_finite /\ a.scale_value = scale_value[w] THEN @ + 1 ELSE 0]
            /\ last' = [last EXCEPT ![w] =
                   [NoStep EXCEPT !.fin = grads_finite, !.acc = accumulate[w],
                                  !.adj = LoopAdjustCalled(opt), !.scale = scale_value[w]]]
    /\ UNCHANGED <<opt, pc, i, accumulate, accumulate_grads, accumulate_cur_step, params,
                   opt_steps, ema_updates, reduce_calls, allreduce, n_finite, acc_seen,
                   checkpoints, window>>

\* ---------------------------------------------------------- specifications
SetupSome == \E w \in Workers : Setup(w)

StepSome == \E w \in Workers : Step(w)

BeginStepSome == \E w \in Workers : BeginStep(w)

EndStepSome == \E w \in Workers : EndStep(w)

ScaleStepSome == \E w \in Workers : ScaleStep(w)

Next == SetupSome \/ StepSome \/ BeginStepSome \/ EndStepSome

Spec == Init /\ [][Next]_vars

\* every worker is a process of its own that keeps running, and the collective
\* returns once all workers have entered it
WorkerNext(w) == w \in Workers /\ (Setup(w) \/ Step(w) \/ BeginStep(w) \/ EndStep(w))

\* the runs checked for termination: every strategy, scaler, batch size, warmup
\* and worker count of ConfigSet, with the two options that steer no loop or
\* barrier (ema, overflow_still_update) held at their defaults, and single-device
\* runs of one epoch
InitLive ==
    /\ Init
    /\ opt.ema = BaseOpt.ema
    /\ opt.overflow_still_update = BaseOpt.overflow_still_update
    /\ ~opt.is_distributed => opt.epochs = 1

LiveSpec == InitLive /\ [][Next]_vars /\ \A w \in AllWorkers : WF_vars(WorkerNext(w))

\* the scaler alone, in dynamic mode, with and without accumulation
InitScaler ==
    /\ Init
    /\ opt \in {c \in ShapeConfigs :
                   /\ c.ms_loss_scaler = "dynamic" /\ c.warmup_steps = 0
                   /\ c.epochs = 1 /\ ~c.overflow_still_update /\ c.ema}

NextScaler == SetupSome \/ ScaleStepSome

SpecScaler == InitScaler /\ [][NextScaler]_vars

\* ==================================================================
\* Properties
\* ==================================================================

\* worker w completes an iteration in this step
Stepped(w) == i'[w] = i[w] + 1

\* C1: in the accumulation path with the target held at k > 1, the optimizer
\* is applied exactly at the k-th, 2k-th, ... finite micro-batch and at no
\* other one (non-finite ones do not count); each firing updates the EMA and
\* leaves the buffer empty (accumulate_grads None, accumulate_cur_step 0).
C1_OncePerKFinite ==
    \A w \in Workers : \A k \in 2..nbs :
        acc_seen[w] = {k} =>
            /\ opt_steps[w] = n_finite[w] \div k
            /\ accumulate_cur_step[w] = n_finite[w] % k
            /\ last[w].opt <=> (last[w].fin /\ n_finite[w] % k = 0)
            /\ last[w].opt => accumulate_grads[w] = <<>> /\ accumulate_cur_step[w] = 0
            /\ (accumulate_grads[w] = <<>>) <=> (accumulate_cur_step[w] = 0)
            /\ opt.ema => ema_updates[w] = opt_steps[w]
            /\ (k = 4 /\ n_finite[w] = 8 /\ i[w] = 8) =>
                   opt_steps[w] = 2 /\ (opt.ema => ema_updates[w] = 2)

C1_Witness ==
    \E w \in Workers :
        /\ acc_seen[w] = {4} /\ i[w] = 8 /\ n_finite[w] = 8
        /\ opt_steps[w] = 2 /\ ema_updates[w] = 2 /\ last[w].opt
        /\ accumulate_grads[w] = <<>>

\* C2 (as claimed): ema.update() is called at a step only if the optimizer
\* applied an update at that step, so EMA updates and optimizer updates are
\* equal in number, in every execution mode.
C2_EmaOnlyOnAppliedSteps ==
    \A w \in Workers :
        /\ last[w].ema => last[w].opt
        /\ opt.ema => ema_updates[w] = opt_steps[w]

\* C3: with accumulate == 1 (StaticShape) a finite micro-batch causes exactly
\* one optimizer update, of that micro-batch's gradients, and exactly one EMA
\* update (EMA enabled); after n micro-batches, all finite, both counts are n.
C3_Step(w) ==
    (Stepped(w) /\ opt.ms_strategy = "StaticShape" /\ last'[w].acc = 1 /\ last'[w].fin) =>
        /\ opt_steps'[w] = opt_steps[w] + 1
        /\ params'[w] = RAdd(params[w], last'[w].grads)
        /\ last'[w].opt /\ last'[w].handed = <<last'[w].grads>>
        /\ opt.ema => ema_updates'[w] = ema_updates[w] + 1 /\ last'[w].ema
        /\ (acc_seen'[w] = {1} /\ n_finite'[w] = i'[w]) =>
               /\ opt_steps'[w] = i'[w]
               /\ opt.ema => ema_updates'[w] = i'[w]

C3_OnePerFiniteMicroBatch == [][\A w \in Workers : C3_Step(w)]_vars

C3_Witness ==
    \E w \in Workers :
        /\ opt.ms_strategy = "StaticShape" /\ opt.ema /\ acc_seen[w] = {1}
        /\ i[w] = 3 /\ n_finite[w] = 3 /\ opt_steps[w] = 3 /\ ema_updates[w] = 3

\* C4: a non-finite micro-batch in the accumulation path is dropped: buffer,
\* counter, parameters, optimizer and EMA are as before, only the loss scale
\* may move.  With A = 4, after 4 micro-batches of which one was non-finite,
\* the optimizer has not fired and the counter is 3.
C4_Step(w) ==
    /\ (Stepped(w) /\ opt.ms_strategy = "StaticShape" /\ last'[w].acc > 1 /\ ~last'[w].fin) =>
           /\ accumulate_grads'[w] = accumulate_grads[w]
           /\ accumulate_cur_step'[w] = accumulate_cur_step[w]
           /\ params'[w] = params[w]
           /\ opt_steps'[w] = opt_steps[w]
           /\ ema_updates'[w] = ema_updates[w]
           /\ ~last'[w].opt /\ ~last'[w].ema
    /\ (acc_seen'[w] = {4} /\ i'[w] = 4 /\ n_finite'[w] = 3) =>
           opt_steps'[w] = 0 /\ accumulate_cur_step'[w] = 3

C4_NonFiniteDropped == [][\A w \in Workers : C4_Step(w)]_vars

C4_Witness ==
    \E w \in Workers :
        /\ acc_seen[w] = {4} /\ i[w] = 4 /\ n_finite[w] = 3 /\ last[w].fin
        /\ accumulate_cur_step[w] = 3 /\ opt_steps[w] = 0
        /\ opt.ms_loss_scaler = "dynamic" /\ scale_value[w] = init_scale_value \div 2

\* C5 (as claimed): with overflow_still_update set, a non-finite micro-batch is
\* not dropped in either path: it is applied at once (accumulate == 1) or goes
\* into the buffer or the update it completes (accumulate > 1), and an overflow
\* message is printed.
C5_StillUpdateBothPaths ==
    \A w \in Workers :
        (opt.ms_strategy = "StaticShape" /\ opt.overflow_still_update
            /\ i[w] > 0 /\ ~last[w].fin) =>
            /\ last[w].printed # {}
            /\ "this step grad overflow, drop." \notin last[w].printed
            /\ \/ last[w].opt /\ ~params[w].fin
               \/ accumulate_grads[w] # <<>> /\ ~accumulate_grads[w][1].fin

\* C7 (as claimed): StaticCell with an accumulation target above 1 is refused
\* before any training step has run.
C7_RejectedBeforeAnyStep ==
    \A w \in Workers :
        (opt.ms_strategy = "StaticCell" /\ pc[w] = "aborted") =>
            i[w] = 0 /\ opt_steps[w] = 0 /\ ema_updates[w] = 0

\* C8 (as claimed): an iteration at or after warmup_steps runs with the nominal
\* target max(round(nbs / total_batch_size), 1); one before it runs with the
\* rounded interpolation, at least 1.
C8_SteadyTargetNominal ==
    \A w \in Workers :
        i[w] > 0 =>
            IF i[w] - 1 >= opt.warmup_steps
            THEN last[w].acc = NominalAccumulate(opt)
            ELSE last[w].acc = WarmupAccumulate(opt, i[w] - 1)

\* C6 (as claimed): in dynamic mode the scale doubles exactly at the N-th
\* finite micro-batch in a row since it last changed, halves at every
\* non-finite micro-batch (the counter resets), and is never below the floor.
C6_StepOriginal(w) ==
    (pc[w] = "loop" /\ last'[w].adj) =>
        /\ (scale_value'[w] = scale_factor * scale_value[w])
               <=> (last'[w].fin /\ streak[w] + 1 = scale_window)
        /\ ~last'[w].fin => scale_factor * scale_value'[w] = scale_value[w] /\ counter'[w] = 0
        /\ scale_value'[w] >= scale_floor

C6_HalvesAtEveryNonFinite == [][\A w \in Workers : C6_StepOriginal(w)]_vars

\* C6 (amended): the scale doubles exactly at the N-th finite micro-batch in a
\* row since the last doubling or non-finite micro-batch, and is unchanged at
\* any other finite one; a non-finite micro-batch halves it, but not below the
\* floor of 1, where it stays, and resets the counter.
C6_StepAmended(w) ==
    (pc[w] = "loop" /\ last'[w].adj) =>
        /\ last'[w].fin =>
               /\ scale_value'[w] = IF streak[w] + 1 = scale_window
                                      THEN scale_factor * scale_value[w]
                                      ELSE scale_value[w]
        /\ ~last'[w].fin =>
               /\ scale_value'[w] = Max(scale_floor, scale_value[w] \div scale_factor)
               /\ counter'[w] = 0
        /\ scale_value'[w] >= scale_floor

C6_DoublesHalvesAboveFloor == [][\A w \in Workers : C6_StepAmended(w)]_vars

C6_Witness ==
    \E w \in Workers :
        /\ scale_value[w] = scale_factor * init_scale_value
        /\ last[w].fin /\ last[w].adj /\ last[w].scale = init_scale_value
        /\ streak[w] = 0 /\ counter[w] = 0

\* C9: the reducer runs once per micro-batch and before the finiteness check
\* and the accumulation: the reduced gradient is the workers' mean (the
\* worker's own gradient on a single device), the step is finite only if all
\* workers' gradients are, and the buffer and the optimizer receive the
\* unscaled reduced gradient.
C9_State(w) ==
    opt.ms_strategy = "StaticShape" =>
        /\ reduce_calls[w] = i[w] + (IF pc[w] = "reduce" THEN 1 ELSE 0)
        /\ i[w] > 0 =>
               /\ RMulInt(last[w].grads, last[w].scale) = last[w].red
               /\ last[w].fin <=> last[w].red.fin
               /\ IF opt.is_distributed
                  THEN /\ last[w].local = allreduce[w][i[w]]
                       /\ RMulInt(last[w].red, opt.rank_size)
                              = SumOver([v \in Workers |-> allreduce[v][i[w]]], opt.rank_size)
                       /\ last[w].fin <=> \A v \in Workers : allreduce[v][i[w]].fin
                  ELSE last[w].red = last[w].local

C9_Step(w) ==
    (Stepped(w) /\ opt.ms_strategy = "StaticShape" /\ last'[w].acc > 1 /\ last'[w].fin) =>
        LET sum == IF accumulate_grads[w] = <<>> THEN last'[w].grads
                   ELSE RAdd(accumulate_grads[w][1], last'[w].grads)
        IN  IF last'[w].opt THEN last'[w].handed = <<sum>>
            ELSE accumulate_grads'[w] = <<sum>>

C9_ReduceBeforeAccumulate ==
    /\ [](\A w \in Workers : C9_State(w))
    /\ [][\A w \in Workers : C9_Step(w)]_vars

C9_Witness ==
    \E w \in Workers :
        /\ opt.rank_size = 4 /\ i[w] = 1 /\ last[w].fin
        /\ allreduce[1][1] # allreduce[2][1]
        /\ last[w].red # last[w].local
        /\ RMulInt(last[w].red, 4) = SumOver([v \in Workers |-> allreduce[v][1]], 4)

\* C10: the loop terminates on every worker: each worker ends, done only after
\* exactly epochs * per_epoch_size iterations whatever the micro-batches held,
\* so no worker stays in the reduction for ever; a worker ends otherwise only
\* by the rejection of its options (at setup, or by the StaticCell assertion).
C10_Terminates ==
    /\ <>(\A w \in Workers : pc[w] \in {"done", "aborted"})
    /\ [](\A w \in Workers : pc[w] = "done" => i[w] = opt.epochs * opt.per_epoch_size)
    /\ [](\A w \in Workers :
            pc[w] = "aborted" => SetupRejects(opt) \/ opt.ms_strategy = "StaticCell")

C10_Witness ==
    \E w \in Workers :
        /\ opt.rank_size = 2 /\ opt.epochs = 2
        /\ \A v \in Workers : pc[v] = "done" /\ i[v] = 2
        /\ n_finite[w] = 1 /\ ~allreduce[w][1].fin /\ allreduce[3 - w][1].fin

\* C11: a checkpoint is written at loop step i exactly when (i + 1) is a
\* multiple of per_epoch_size and rank % 8 = 0; it holds the live weights and,
\* with the EMA on, the EMA update counter as it stands after that step; the
\* k-th checkpoint is the one of epoch k, a finished run has written `epochs`
\* of them on such a worker, and the other workers write none.
C11_Step(w) ==
    IF Stepped(w) /\ ((i[w] + 1) % opt.per_epoch_size = 0) /\ (rank(w) % 8 = 0)
    THEN /\ Len(checkpoints'[w]) = Len(checkpoints[w]) + 1
         /\ \A k \in 1..Len(checkpoints[w]) : checkpoints'[w][k] = checkpoints[w][k]
         /\ LET c == checkpoints'[w][Len(checkpoints'[w])]
            IN  /\ c.weights = params'[w]
                /\ c.epoch = (i[w] + 1) \div opt.per_epoch_size
                /\ c.ema = opt.ema
                /\ opt.ema => c.updates = ema_updates'[w]
    ELSE checkpoints'[w] = checkpoints[w]

C11_State(w) ==
    /\ \A k \in 1..Len(checkpoints[w]) : checkpoints[w][k].epoch = k
    /\ rank(w) % 8 # 0 => checkpoints[w] = <<>>
    /\ (pc[w] = "done" /\ rank(w) % 8 = 0) => Len(checkpoints[w]) = opt.epochs

C11_CheckpointAtEpochEnd ==
    /\ [](\A w \in Workers : C11_State(w))
    /\ [][\A w \in Workers : C11_Step(w)]_vars

C11_Witness ==
    \E w \in Workers :
        /\ opt.epochs = 2 /\ opt.per_epoch_size = MaxPerEpoch /\ opt.ema
        /\ pc[w] = "done" /\ Len(checkpoints[w]) = 2
        /\ checkpoints[w][1].weights # checkpoints[w][2].weights
        /\ checkpoints[w][1].updates = 1 /\ checkpoints[w][2].updates = 2
        /\ ema_updates[w] = 2

\* C12 (as claimed): in a data-parallel run the reducer has been entered as
\* often as the optimizer has been applied, on every worker, between iterations.
C12_ReduceOncePerUpdate ==
    \A w \in Workers :
        (opt.is_distributed /\ pc[w] \in {"loop", "done"}) => reduce_calls[w] = opt_steps[w]

\* C13: workers that have completed the same number of iterations are replicas:
\* same parameters, same finiteness verdict and gradients at the latest step,
\* same loss-scale state, same accumulation target, counter and buffer, same
\* optimizer and EMA update counts, whatever each worker's own gradients were.
C13_Replicas ==
    \A v \in Workers : \A w \in Workers :
        (i[v] = i[w] /\ pc[v] \in {"loop", "done"} /\ pc[w] \in {"loop", "done"}) =>
            /\ params[v] = params[w]
            /\ last[v].fin = last[w].fin /\ last[v].grads = last[w].grads
            /\ scale_value[v] = scale_value[w] /\ counter[v] = counter[w]
            /\ accumulate[v] = accumulate[w]
            /\ accumulate_cur_step[v] = accumulate_cur_step[w]
            /\ accumulate_grads[v] = accumulate_grads[w]
            /\ opt_steps[v] = opt_steps[w] /\ ema_updates[v] = ema_updates[w]

C13_Witness ==
    /\ opt.rank_size = 2 /\ opt.total_batch_size = 64
    /\ \A w \in Workers : pc[w] = "done" /\ i[w] = 2
    /\ allreduce[1][1] = backward(opt, Rat(1, 1)) /\ allreduce[2][1] = backward(opt, Rat(3, 1))
    /\ ~allreduce[1][2].fin /\ allreduce[2][2].fin
    /\ params[1] = params[2] /\ params[1].n # 0
    /\ opt_steps[1] = 1 /\ opt_steps[2] = 1
    /\ scale_value[1] = init_scale_value \div 2 /\ scale_value[2] = init_scale_value \div 2

\* C14 (as claimed): at every micro-batch of the StaticShape step function the
\* value backpropagation is seeded with equals the scale value that unscale
\* divides by at that micro-batch.
C14_SeedEqualsScale ==
    \A w \in Workers :
        (opt.ms_strategy = "StaticShape" /\ i[w] > 0) => last[w].sens = last[w].scale

\* C15 (as claimed): the factor the step function multiplies the loss by is the
\* number of participating workers.
C15_LossTimesWorkers ==
    \A w \in Workers :
        (opt.ms_strategy = "StaticShape" /\ i[w] > 0) => last[w].rank_size = opt.rank_size

\* C16: with ms_loss_scaler "static" the scale is opt.ms_loss_scaler_value, with
\* "none" it is opt.ms_grad_sens, before and after every micro-batch, finite or
\* not, and it is the value each micro-batch was unscaled with.
C16_StaticScaleFixed ==
    \A w \in Workers :
        (opt.ms_strategy = "StaticShape" /\ opt.ms_loss_scaler \in {"static", "none"}
            /\ pc[w] \in {"loop", "reduce", "done"}) =>
            LET configured == IF opt.ms_loss_scaler = "static" THEN opt.ms_loss_scaler_value
                              ELSE opt.ms_grad_sens
            IN  /\ scale_value[w] = configured
                /\ i[w] > 0 => last[w].scale = configured

C16_Witness ==
    \E w \in Workers :
        /\ opt.ms_loss_scaler = "static" /\ opt.ms_loss_scaler_value = 2048
        /\ i[w] = 4 /\ n_finite[w] = 2 /\ ~last[w].fin /\ last[w].adj
        /\ scale_value[w] = 2048 /\ last[w].scale = 2048

C18_Step(w) ==
    (Stepped(w) /\ opt.ms_strategy = "StaticShape" /\ last'[w].acc > 1) =>
        LET win == IF last'[w].fin THEN Append(window[w], last'[w].grads) ELSE window[w]
        IN  IF last'[w].opt
            THEN /\ last'[w].fin
                 /\ Len(win) = last'[w].acc
                 /\ \A k \in 1..Len(win) : win[k].fin
                 /\ last'[w].handed = <<SumOver(win, Len(win))>>
                 /\ params'[w] = RAdd(params[w], SumOver(win, Len(win)))
                 /\ accumulate_grads'[w] = <<>> /\ accumulate_cur_step'[w] = 0
            ELSE /\ params'[w] = params[w]
                 /\ accumulate_cur_step'[w] = Len(win)
                 /\ accumulate_grads'[w] = IF win = <<>> THEN <<>> ELSE <<SumOver(win, Len(win))>>

C18_EveryFiniteApplied ==
    [][\A w \in Workers : C18_Step(w) /\ (pc'[w] = "done" => window'[w] = <<>>)]_vars

\* C18 (amended): the same, except that the finite micro-batches of a window
\* still open when the loop ends are never handed to the optimizer: a finite
\* micro-batch goes into at most one update, the one that closes its window.
C18_FiringIsWindowSum == [][\A w \in Workers : C18_Step(w)]_vars

C18_Witness ==
    \E w \in Workers :
        /\ opt.total_batch_size = 16 /\ opt.warmup_steps = 0 /\ opt.epochs = 2
        /\ i[w] = 6 /\ n_finite[w] = 4 /\ last[w].opt /\ last[w].acc = 4
        /\ last[w].handed # <<RMulInt(last[w].grads, 4)>> /\ params[w] = last[w].handed[1]
        /\ window[w] = <<>> /\ opt_steps[w] = 1

\* C19 (as claimed): between iterations the number of optimizer updates applied
\* so far equals the loop index i.
C19_IndexIsUpdateCount ==
    \A w \in Workers : pc[w] \in {"loop", "done"} => opt_steps[w] = i[w]

====
